---- MODULE Spec2Model ----
(***************************************************************************)
(* gio_pyio.StreamWrapper: a file object over one Gio stream handle.      *)
(*                                                                         *)
(* The state is the handle the caller passes to StreamWrapper (its class   *)
(* and optional accessors), the resource behind it (contents, position,    *)
(* closed flags of the input and output views), the wrapper's fields, and  *)
(* a record of the last wrapper call: its name and arguments, what it      *)
(* returned or raised, and the provider calls it made, in order.           *)
(***************************************************************************)
EXTENDS Integers, Sequences, FiniteSets, TLC

\* ------------------------------------------------------------------ bounds
\* Longest resource contents the model lets a write or truncate produce.
MaxLen == 3
\* Largest stream position the model lets a seek reach.
MaxPos == 4
\* io.DEFAULT_BUFFER_SIZE, scaled down so that read(-1) has to grow its plan.
DEFAULT_BUFFER_SIZE == 2
\* Gio.BufferedInputStream.get_buffer_size() of a buffered handle, scaled down.
BufferSize == 2

\* ------------------------------------------------- whence and seek types
SEEK_SET == 0
SEEK_CUR == 1
SEEK_END == 2
G_SEEK_CUR == 0
G_SEEK_SET == 1
G_SEEK_END == 2

VARIABLES
    stream,         \* the raw handle given to StreamWrapper(stream)
    content,        \* the bytes of the resource behind the handle
    pos,            \* the position of the handle (shared by both views)
    in_closed,      \* the input view is closed
    out_closed,     \* the output view is closed
    pc,             \* "new" before __init__, "ready" after, "failed" on TypeError
    input_stream,   \* self._input_stream:  "in" or "None"
    output_stream,  \* self._output_stream: "out" or "None"
    ref_stream,     \* self._ref_stream:    "in", "out" or "None"
    io_stream,      \* self._io_stream:      "io" or "None" (attribute absent)
    op,             \* the last wrapper call and its arguments
    result,         \* what the last wrapper call returned or raised
    was_closed,     \* self.closed as it was when the last wrapper call began
    calls,          \* the provider calls the last wrapper call made, in order
    file_type,      \* the Gio.File open is given: "regular", "directory", "missing"
    append,         \* the output stream was opened by append_to
    mode,           \* the mode open was called with (<<>> before any open)
    file_like       \* the outermost object open returned, "None" without one

vars == <<stream, content, pos, in_closed, out_closed, pc, input_stream,
          output_stream, ref_stream, io_stream, op, result, was_closed,
          calls, file_type, append, mode, file_like>>

provider == <<content, pos, in_closed, out_closed>>
fields == <<input_stream, output_stream, ref_stream, io_stream>>
opened == <<file_type, append, mode, file_like>>

\* ------------------------------------------------------------ input sets
\* The handles a caller can pass: the three stream classes the constructor
\* accepts and one that is none of them.  input_class says what read(-1)
\* finds on the input view: a BufferedInputStream, a get_size accessor, a
\* query_info accessor, or none of these.  full_reads says that the provider
\* never cuts a chunk short of what is left.
InputClasses == {"buffered", "get_size", "query_info", "plain"}

Streams ==
    {[kind |-> "InputStream", can_seek |-> s, can_truncate |-> FALSE,
      has_fd |-> f, input_class |-> c, full_reads |-> FALSE] :
        s \in BOOLEAN, f \in BOOLEAN, c \in InputClasses}
    \cup
    {[kind |-> "OutputStream", can_seek |-> s, can_truncate |-> t,
      has_fd |-> f, input_class |-> "plain", full_reads |-> FALSE] :
        s \in BOOLEAN, t \in BOOLEAN, f \in BOOLEAN}
    \cup
    {[kind |-> "IOStream", can_seek |-> s, can_truncate |-> t,
      has_fd |-> f, input_class |-> c, full_reads |-> FALSE] :
        s \in BOOLEAN, t \in BOOLEAN, f \in BOOLEAN, c \in InputClasses}
    \cup
    {[kind |-> "Other", can_seek |-> FALSE, can_truncate |-> FALSE,
      has_fd |-> FALSE, input_class |-> "plain", full_reads |-> FALSE]}

InitContents == {<<>>, <<1, 2, 3>>}
Offsets == {-1, 0, 2}
Whences == {SEEK_SET, SEEK_CUR, SEEK_END}

\* --------------------------------------------------- results and call log
NoArgs == [name |-> "none", a |-> 0, b |-> 0, data |-> <<>>, c |-> "None"]
Op(name, a, b, data) ==
    [name |-> name, a |-> a, b |-> b, data |-> data, c |-> "None"]

Raise(e) == [exc |-> e, kind |-> "raise", n |-> 0, data |-> <<>>]
RetNone == [exc |-> "None", kind |-> "none", n |-> 0, data |-> <<>>]
RetInt(i) == [exc |-> "None", kind |-> "int", n |-> i, data |-> <<>>]
RetBool(f) == [exc |-> "None", kind |-> "bool", n |-> IF f THEN 1 ELSE 0,
               data |-> <<>>]
RetBytes(d) == [exc |-> "None", kind |-> "bytes", n |-> Len(d), data |-> d]

Call(fn, on, a, b) == [fn |-> fn, on |-> on, a |-> a, b |-> b]

\* The provider calls of a log that move data or position, resize or close.
IOCalls == {"read_bytes", "write_bytes", "seek", "truncate", "flush", "close"}
Count(log, fns) == Cardinality({i \in 1 .. Len(log) : log[i].fn \in fns})

Init ==
    /\ stream \in Streams
    /\ content \in InitContents
    /\ pos = 0
    /\ in_closed = FALSE
    /\ out_closed = FALSE
    /\ pc = "new"
    /\ input_stream = "None"
    /\ output_stream = "None"
    /\ ref_stream = "None"
    /\ io_stream = "None"
    /\ op = NoArgs
    /\ result = RetNone
    /\ was_closed = FALSE
    /\ calls = <<>>
    /\ file_type = "regular"
    /\ append = FALSE
    /\ mode = <<>>
    /\ file_like = "None"

\* An __init__ without its final else: any handle yields a wrapper.
init_without_else ==
    /\ pc = "new"
    /\ op' = Op("__init__", 0, 0, <<>>)
    /\ calls' = <<>>
    /\ result' = RetNone
    /\ pc' = "ready"
    /\ UNCHANGED <<stream, provider, was_closed, opened>>
    /\ input_stream' = IF stream.kind \in {"InputStream", "IOStream"}
                       THEN "in" ELSE "None"
    /\ output_stream' = IF stream.kind \in {"OutputStream", "IOStream"}
                        THEN "out" ELSE "None"
    /\ ref_stream' = IF stream.kind \in {"InputStream", "IOStream"}
                     THEN "in"
                     ELSE IF stream.kind = "OutputStream" THEN "out"
                     ELSE "None"
    /\ io_stream' = IF stream.kind = "IOStream" THEN "io" ELSE "None"

\* ------------------------------------------------------------- __init__
init ==
    /\ pc = "new"
    /\ op' = Op("__init__", 0, 0, <<>>)
    /\ calls' = <<>>
    /\ UNCHANGED <<stream, provider, was_closed, opened>>
    /\ CASE stream.kind = "InputStream" ->
              /\ input_stream' = "in"
              /\ output_stream' = "None"
              /\ ref_stream' = "in"
              /\ io_stream' = "None"
              /\ pc' = "ready"
              /\ result' = RetNone
         [] stream.kind = "OutputStream" ->
              /\ input_stream' = "None"
              /\ output_stream' = "out"
              /\ ref_stream' = "out"
              /\ io_stream' = "None"
              /\ pc' = "ready"
              /\ result' = RetNone
         [] stream.kind = "IOStream" ->
              /\ input_stream' = "in"
              /\ output_stream' = "out"
              /\ ref_stream' = "in"
              /\ io_stream' = "io"
              /\ pc' = "ready"
              /\ result' = RetNone
         [] OTHER ->
              /\ UNCHANGED fields
              /\ pc' = "failed"
              /\ result' = Raise("TypeError")

\* --------------------------------------------------------------- queries
\* A readable() that stops answering true once the input view is closed.
readable_until_closed == input_stream # "None" /\ ~ in_closed

readable == input_stream # "None"
writable == output_stream # "None"

\* Gio.InputStream.is_closed / Gio.OutputStream.is_closed of a view.
is_closed(view) == IF view = "in" THEN in_closed ELSE out_closed

closed == is_closed(ref_stream)

\* The closed test of io.IOBase's own flag, which close() never sets.
checkClosed_base_flag == FALSE

\* self._checkClosed(): io.IOBase raises ValueError when self.closed is true.
checkClosed == closed
checkClosedLog == <<Call("is_closed", ref_stream, 0, 0)>>

\* What every wrapper call leaves alone, and what it records.
Done(o, r, c) ==
    /\ op' = o
    /\ result' = r
    /\ calls' = c
    /\ was_closed' = is_closed(ref_stream)
    /\ UNCHANGED <<stream, pc, fields, opened>>

\* A close() that begins with the closed test the other methods have.
close_checked ==
    /\ pc = "ready"
    /\ UNCHANGED <<content, pos>>
    /\ in_closed' = (readable \/ in_closed)
    /\ out_closed' = (writable \/ out_closed)
    /\ IF closed
       THEN Done(Op("close", 0, 0, <<>>), Raise("ValueError"), checkClosedLog)
       ELSE Done(Op("close", 0, 0, <<>>), RetNone,
                 <<Call("close", ref_stream, 0, 0)>>)

\* A close() that, called on a closed wrapper, opens the views again.
close_reopens ==
    /\ pc = "ready"
    /\ UNCHANGED <<content, pos>>
    /\ in_closed' = (readable /\ ~ in_closed)
    /\ out_closed' = (writable /\ ~ out_closed)
    /\ Done(Op("close", 0, 0, <<>>), RetNone,
            <<Call("close", ref_stream, 0, 0)>>)

\* ---------------------------------------------------------------- close
\* Gio's close of a stream marks it closed; on a closed stream it returns at
\* once.  Closing a Gio.IOStream closes its input and its output stream.
close ==
    /\ pc = "ready"
    /\ IF io_stream # "None"
       THEN /\ in_closed' = TRUE
            /\ out_closed' = TRUE
            /\ Done(Op("close", 0, 0, <<>>), RetNone,
                    <<Call("close", "io", 0, 0)>>)
       ELSE /\ in_closed' = (readable \/ in_closed)
            /\ out_closed' = (writable \/ out_closed)
            /\ Done(Op("close", 0, 0, <<>>), RetNone,
                    (IF readable THEN <<Call("close", "in", 0, 0)>> ELSE <<>>)
                    \o (IF writable THEN <<Call("close", "out", 0, 0)>>
                        ELSE <<>>))
    /\ UNCHANGED <<content, pos>>

\* --------------------------------------------------------------- fileno
\* `not (self._ref_stream, 'get_fd')`: the operand is a two-element tuple,
\* which is true whatever the handle exposes, so the test is never true.
fileno_unsupported == ~ (Len(<<ref_stream, "get_fd">>) > 0)

\* Gio.FileDescriptorBased.get_fd of a handle that has the accessor.
get_fd(view) == 3

fileno ==
    /\ pc = "ready"
    /\ UNCHANGED provider
    /\ IF checkClosed
       THEN Done(Op("fileno", 0, 0, <<>>), Raise("ValueError"), checkClosedLog)
       ELSE IF fileno_unsupported
       THEN Done(Op("fileno", 0, 0, <<>>), Raise("UnsupportedOperation"),
                 checkClosedLog)
       ELSE IF stream.has_fd
       THEN Done(Op("fileno", 0, 0, <<>>), RetInt(get_fd(ref_stream)),
                 checkClosedLog \o <<Call("get_fd", ref_stream, 0, 0)>>)
       ELSE Done(Op("fileno", 0, 0, <<>>), Raise("AttributeError"),
                 checkClosedLog)

\* ---------------------------------------------------------------- flush
flush ==
    /\ pc = "ready"
    /\ UNCHANGED provider
    /\ IF checkClosed
       THEN Done(Op("flush", 0, 0, <<>>), Raise("ValueError"), checkClosedLog)
       ELSE Done(Op("flush", 0, 0, <<>>), RetNone,
                 checkClosedLog \o
                 (IF writable THEN <<Call("flush", output_stream, 0, 0)>>
                  ELSE <<>>))

\* ---------------------------------------------- readable() and writable()
call_readable ==
    /\ pc = "ready"
    /\ UNCHANGED provider
    /\ Done(Op("readable", 0, 0, <<>>), RetBool(readable), <<>>)

call_writable ==
    /\ pc = "ready"
    /\ UNCHANGED provider
    /\ Done(Op("writable", 0, 0, <<>>), RetBool(writable), <<>>)

\* ------------------------------------------------------- seekable, tell
seekable ==
    /\ pc = "ready"
    /\ UNCHANGED provider
    /\ IF checkClosed
       THEN Done(Op("seekable", 0, 0, <<>>), Raise("ValueError"),
                 checkClosedLog)
       ELSE Done(Op("seekable", 0, 0, <<>>), RetBool(stream.can_seek),
                 checkClosedLog \o <<Call("can_seek", ref_stream, 0, 0)>>)

tell ==
    /\ pc = "ready"
    /\ UNCHANGED provider
    /\ IF checkClosed
       THEN Done(Op("tell", 0, 0, <<>>), Raise("ValueError"), checkClosedLog)
       ELSE Done(Op("tell", 0, 0, <<>>), RetInt(pos),
                 checkClosedLog \o <<Call("tell", ref_stream, 0, 0)>>)

\* ----------------------------------------------------------------- seek
\* A seek that hands the caller's whence to the provider as it is.
translate_whence_same(whence) == whence

\* `if whence != 2: whence = not whence`
translate_whence(whence) ==
    IF whence # 2 THEN (IF whence = 0 THEN 1 ELSE 0) ELSE whence

\* Gio.Seekable.seek(offset, type): the position it asks for.  A negative
\* target is refused with a GLib.Error and the position stays.
seek_target(p, size, offset, type) ==
    CASE type = G_SEEK_SET -> offset
      [] type = G_SEEK_CUR -> p + offset
      [] OTHER -> size + offset

\* self._checkSeekable(): io.IOBase calls self.seekable(), which checks
\* closed again and asks the reference handle.
checkSeekableLog == checkClosedLog \o <<Call("can_seek", ref_stream, 0, 0)>>

\* The views seek applies the translated seek to, in the order it does.
seek_views ==
    (IF readable THEN <<input_stream>> ELSE <<>>)
    \o (IF writable THEN <<output_stream>> ELSE <<>>)

\* The provider seeks of one call, applied in order to the position p:
\* [pos, failed, log].  The first refused seek raises and ends the call.
RECURSIVE do_seeks(_, _, _, _, _)
do_seeks(views, p, offset, type, log) ==
    IF views = <<>>
    THEN [pos |-> p, failed |-> FALSE, log |-> log]
    ELSE LET t == seek_target(p, Len(content), offset, type)
             l == Append(log, Call("seek", Head(views), offset, type))
         IN IF t < 0
            THEN [pos |-> p, failed |-> TRUE, log |-> l]
            ELSE do_seeks(Tail(views), t, offset, type, l)

seek ==
    \E offset \in Offsets, whence \in Whences :
        LET o == Op("seek", offset, whence, <<>>)
            r == do_seeks(seek_views, pos, offset, translate_whence(whence),
                          <<>>)
        IN /\ pc = "ready"
           /\ UNCHANGED <<content, in_closed, out_closed>>
           /\ IF checkClosed
              THEN /\ pos' = pos
                   /\ Done(o, Raise("ValueError"), checkClosedLog)
              ELSE IF ~ stream.can_seek
              THEN /\ pos' = pos
                   /\ Done(o, Raise("UnsupportedOperation"),
                           checkClosedLog \o checkSeekableLog)
              ELSE /\ r.pos <= MaxPos
                   /\ pos' = r.pos
                   /\ IF r.failed
                      THEN Done(o, Raise("GLibError"),
                                checkClosedLog \o checkSeekableLog \o r.log)
                      ELSE Done(o, RetInt(r.pos),
                                checkClosedLog \o checkSeekableLog \o r.log
                                \o <<Call("tell", ref_stream, 0, 0)>>)

\* ----------------------------------------------------------------- read
Min(a, b) == IF a < b THEN a ELSE b
Max(a, b) == IF a > b THEN a ELSE b

\* Gio.InputStream.read_bytes(count) at position p: the lengths the chunk it
\* returns may have.  It is empty exactly at end of stream (or for a count
\* of zero); otherwise the provider returns between one byte and all of what
\* was asked for and is left.
read_bytes(p, count) ==
    IF count <= 0 \/ p >= Len(content)
    THEN {0}
    ELSE IF stream.full_reads
    THEN {Min(count, Len(content) - p)}
    ELSE 1 .. Min(count, Len(content) - p)

\* The bytes of the resource from position p, k of them.
get_data(p, k) == SubSeq(content, p + 1, p + k)

\* A read without its capability test.
checkReadable_missing == TRUE

\* `self._checkReadable()` / `self._checkWritable()` of io.IOBase.
checkReadable == readable
checkWritable == writable

\* What read(-1) plans before its loop: [def_bufsize, bufsize, log].  A
\* bufsize of Unbound is the local variable that no branch has assigned.
Unbound == -1

initial_bufsize ==
    IF stream.input_class = "buffered"
    THEN [def_bufsize |-> BufferSize, bufsize |-> Unbound,
          log |-> <<Call("get_buffer_size", input_stream, 0, 0)>>]
    ELSE IF stream.input_class \in {"get_size", "query_info"}
    THEN [def_bufsize |-> DEFAULT_BUFFER_SIZE,
          bufsize |-> IF Len(content) >= pos
                      THEN Len(content) - pos + 1
                      ELSE Unbound,
          log |-> <<Call(stream.input_class, input_stream, 0, 0),
                    Call("tell", ref_stream, 0, 0)>>]
    ELSE [def_bufsize |-> DEFAULT_BUFFER_SIZE,
          bufsize |-> DEFAULT_BUFFER_SIZE, log |-> <<>>]

\* A plan that grows by the default size only.
grow_by_default(len, def_bufsize) == len + def_bufsize

\* `bufsize = len(result); bufsize += max(bufsize, def_bufsize)`
grow(len, def_bufsize) == len + Max(len, def_bufsize)

\* A plan that grows only once the bytes read exceed it.
planned_late(len, bufsize, def_bufsize) ==
    IF len > bufsize THEN grow(len, def_bufsize) ELSE bufsize

\* The planned size at the head of a turn of the loop, with len bytes read:
\* `if len(result) >= bufsize` it grows, else it stays.
planned(len, bufsize, def_bufsize) ==
    IF len >= bufsize THEN grow(len, def_bufsize) ELSE bufsize

\* The `while True` loop of read(-1) from position p with the plan bufsize
\* and the bytes acc read so far: the set of its outcomes [pos, data, log],
\* one for each way the provider may cut its chunks.
RECURSIVE read_loop(_, _, _, _, _)
read_loop(p, bufsize, def_bufsize, acc, log) ==
    LET plan == planned(Len(acc), bufsize, def_bufsize)
        n == plan - Len(acc)
    IN UNION {
         IF k = 0
         THEN {[pos |-> p, data |-> acc,
                log |-> Append(log, Call("read_bytes", input_stream, n, 0))]}
         ELSE read_loop(p + k, plan, def_bufsize, acc \o get_data(p, k),
                        Append(log, Call("read_bytes", input_stream, n, k)))
         : k \in read_bytes(p, n) }

\* A read(size) that asks again until size bytes are there or the stream ends.
RECURSIVE read_until_filled(_, _)
read_until_filled(p, size) ==
    UNION {
      IF k = 0 \/ k = size
      THEN {[pos |-> p + k, data |-> get_data(p, k),
             log |-> <<Call("read_bytes", input_stream, size, k)>>]}
      ELSE {[pos |-> r.pos, data |-> get_data(p, k) \o r.data,
             log |-> <<Call("read_bytes", input_stream, size, k)>> \o r.log] :
               r \in read_until_filled(p + k, size - k)}
      : k \in read_bytes(p, size) }

\* `self._input_stream.read_bytes(size, None).get_data()` at position p: the
\* outcomes [pos, data, log] of the one request, one for each chunk length
\* the provider may return.
read_once(p, size) ==
    {[pos |-> p + k, data |-> get_data(p, k),
      log |-> <<Call("read_bytes", input_stream, size, k)>>] :
        k \in read_bytes(p, size)}

ReadSizes == {-1, 0, 2}

read ==
    \E size \in ReadSizes :
        LET o == Op("read", size, 0, <<>>)
        IN /\ pc = "ready"
           /\ UNCHANGED <<content, in_closed, out_closed>>
           /\ IF checkClosed
              THEN /\ pos' = pos
                   /\ Done(o, Raise("ValueError"), checkClosedLog)
              ELSE IF ~ checkReadable
              THEN /\ pos' = pos
                   /\ Done(o, Raise("UnsupportedOperation"), checkClosedLog)
              ELSE IF size = 0
              THEN /\ pos' = pos
                   /\ Done(o, RetBytes(<<>>), checkClosedLog)
              ELSE IF size > 0
              THEN \E r \in read_once(pos, size) :
                       /\ pos' = r.pos
                       /\ Done(o, RetBytes(r.data), checkClosedLog \o r.log)
              ELSE LET i == initial_bufsize
                   IN IF i.bufsize = Unbound
                      THEN /\ pos' = pos
                           /\ Done(o, Raise("UnboundLocalError"),
                                   checkClosedLog \o i.log)
                      ELSE \E r \in read_loop(pos, i.bufsize, i.def_bufsize,
                                              <<>>, <<>>) :
                               /\ pos' = r.pos
                               /\ Done(o, RetBytes(r.data),
                                       checkClosedLog \o i.log \o r.log)

\* ------------------------------------------------------------- readinto
\* A readinto that clears the part of the buffer it does not fill.
readinto_view_cleared(b, data) ==
    data \o [i \in 1 .. Len(b) - Len(data) |-> 0]

\* `view[:size] = data.get_data()`: the buffer b after the slice assignment.
readinto_view(b, data) == data \o SubSeq(b, Len(data) + 1, Len(b))

\* The caller's pre-allocated buffers.
Buffers == {<<9, 9>>}

readinto ==
    \E b \in Buffers :
        LET o == Op("readinto", 0, 0, b)
        IN /\ pc = "ready"
           /\ UNCHANGED <<content, in_closed, out_closed>>
           /\ IF checkClosed
              THEN /\ pos' = pos
                   /\ Done(o, Raise("ValueError"), checkClosedLog)
              ELSE IF ~ checkReadable
              THEN /\ pos' = pos
                   /\ Done(o, Raise("UnsupportedOperation"), checkClosedLog)
              ELSE \E size \in read_bytes(pos, Len(b)) :
                       /\ pos' = pos + size
                       /\ Done(o,
                               [exc |-> "None", kind |-> "int", n |-> size,
                                data |-> readinto_view(b, get_data(pos, size))],
                               checkClosedLog \o
                               <<Call("read_bytes", input_stream, Len(b),
                                      size)>>)

\* ------------------------------------------------------------- truncate
\* Gio.Seekable.truncate(size): the contents cut or zero-filled to size.
truncated(size) ==
    [i \in 1 .. size |-> IF i <= Len(content) THEN content[i] ELSE 0]

\* A truncate() that takes an omitted size to be zero.
truncate_size_zero(given, arg) == IF given THEN arg ELSE 0

\* `if size is None: size = self._output_stream.tell()`
truncate_size(given, arg) == IF given THEN arg ELSE pos

\* truncate(size=None): given = FALSE stands for the omitted size.
truncate ==
    \E given \in BOOLEAN, arg \in 0 .. MaxLen :
        LET o == Op("truncate", IF given THEN arg ELSE 0,
                    IF given THEN 1 ELSE 0, <<>>)
            size == truncate_size(given, arg)
        IN /\ pc = "ready"
           /\ given \/ arg = 0
           /\ UNCHANGED <<pos, in_closed, out_closed>>
           /\ IF checkClosed
              THEN /\ content' = content
                   /\ Done(o, Raise("ValueError"), checkClosedLog)
              ELSE IF output_stream = "None"
              THEN /\ content' = content
                   /\ Done(o, Raise("UnsupportedOperation"), checkClosedLog)
              ELSE IF ~ stream.can_truncate
              THEN /\ content' = content
                   /\ Done(o, Raise("UnsupportedOperation"),
                           checkClosedLog \o
                           <<Call("can_truncate", output_stream, 0, 0)>>)
              ELSE /\ size <= MaxLen
                   /\ content' = truncated(size)
                   /\ Done(o, RetInt(size),
                           checkClosedLog
                           \o <<Call("can_truncate", output_stream, 0, 0)>>
                           \o (IF given THEN <<>>
                               ELSE <<Call("tell", output_stream, 0, 0)>>)
                           \o <<Call("truncate", output_stream, size, 0)>>)

\* ---------------------------------------------------------------- write
\* Gio.OutputStream.write_bytes(b) at position p having taken k bytes: the
\* contents afterwards (a gap before p is zero-filled).
written(p, b, k) ==
    [i \in 1 .. Max(Len(content), p + k) |->
        IF i > p /\ i <= p + k THEN b[i - p]
        ELSE IF i <= Len(content) THEN content[i]
        ELSE 0]

\* Gio.OutputStream.write_bytes(b): the counts it may report, from one byte
\* to all of b (none for empty data).
write_bytes(b) == IF b = <<>> THEN {0} ELSE 1 .. Len(b)

\* A write that tests for None only and hands empty data to the provider.
write_is_none(is_none, b) == is_none

\* `if b is None or b == b'': return 0`
write_is_empty(is_none, b) == is_none \/ b = <<>>

\* A write that goes on writing what the provider did not take.
RECURSIVE write_until_done(_, _, _)
write_until_done(c, p, b) ==
    UNION {
      LET c1 == [i \in 1 .. Max(Len(c), p + k) |->
                    IF i > p /\ i <= p + k THEN b[i - p]
                    ELSE IF i <= Len(c) THEN c[i]
                    ELSE 0]
          l == <<Call("write_bytes", output_stream, Len(b), k)>>
      IN IF k = Len(b)
         THEN {[content |-> c1, pos |-> p + k, n |-> k, log |-> l]}
         ELSE {[content |-> r.content, pos |-> r.pos, n |-> k + r.n,
                log |-> l \o r.log] :
                 r \in write_until_done(c1, p + k, SubSeq(b, k + 1, Len(b)))}
      : k \in write_bytes(b) }

\* `return self._output_stream.write_bytes(GLib.Bytes(b))` at position p: the
\* outcomes [content, pos, n, log] of the one provider write, one for each
\* count the provider may report.  c is the contents before the write.
write_once(c, p, b) ==
    {[content |-> written(p, b, k), pos |-> p + k, n |-> k,
      log |-> <<Call("write_bytes", output_stream, Len(b), k)>>] :
        k \in write_bytes(b)}

\* Where the provider puts the bytes of a write: at the position, or at the
\* end of the resource for a stream that append_to opened.
write_position == IF append THEN Len(content) ELSE pos

\* What the caller writes; is_none = TRUE stands for write(None).
WriteData == {<<>>, <<7, 8>>}

write ==
    \E b \in WriteData, is_none \in BOOLEAN :
        LET o == Op("write", IF is_none THEN 1 ELSE 0, 0, b)
        IN /\ pc = "ready"
           /\ is_none => b = <<>>
           /\ UNCHANGED <<in_closed, out_closed>>
           /\ IF checkClosed
              THEN /\ UNCHANGED <<content, pos>>
                   /\ Done(o, Raise("ValueError"), checkClosedLog)
              ELSE IF ~ checkWritable
              THEN /\ UNCHANGED <<content, pos>>
                   /\ Done(o, Raise("UnsupportedOperation"), checkClosedLog)
              ELSE IF write_is_empty(is_none, b)
              THEN /\ UNCHANGED <<content, pos>>
                   /\ Done(o, RetInt(0), checkClosedLog)
              ELSE \E r \in write_once(content, write_position, b) :
                       /\ write_position + Len(b) <= MaxLen
                       /\ content' = r.content
                       /\ pos' = r.pos
                       /\ Done(o, RetInt(r.n), checkClosedLog \o r.log)

\* ----------------------------------------------------------------- open
\* The arguments open is called with.  A mode is the sequence of its
\* characters; text_arg names the one of encoding, errors and newline that is
\* given, if any.  Arguments have the types open asks for.
Modes ==
    {<<"r">>, <<"r", "b">>, <<"r", "+", "b">>, <<"w", "b">>,
     <<"w", "+", "b">>, <<"x", "b">>, <<"x", "+", "b">>, <<"a", "b">>,
     <<"a", "+", "b">>, <<"a", "+">>,
     <<>>, <<"r", "w", "b">>, <<"r", "r">>, <<"r", "U">>,
     <<"r", "b", "t">>, <<"b">>}
Bufferings == {-1, 0}
TextArgs == {"None", "encoding", "errors", "newline"}
FileTypes == {"regular", "directory", "missing"}
OpenContents == {<<>>, <<1>>}

OpenOp(m, buffering, text_arg, native) ==
    [name |-> "open", a |-> buffering, b |-> IF native THEN 1 ELSE 0,
     data |-> m, c |-> text_arg]

\* `set(mode)`
ToSet(m) == {m[i] : i \in 1 .. Len(m)}

creating(m) == "x" \in ToSet(m)
reading(m) == "r" \in ToSet(m)
writing(m) == "w" \in ToSet(m)
appending(m) == "a" \in ToSet(m)
updating(m) == "+" \in ToSet(m)
binary(m) == "b" \in ToSet(m)

\* The argument validation at the head of open: the error it raises, or
\* "None".
argument_error(m, text_arg) ==
    IF ToSet(m) \ {"a", "x", "r", "w", "b", "+", "t"} # {}
       \/ Len(m) > Cardinality(ToSet(m))
    THEN "ValueError"
    ELSE IF binary(m) /\ "t" \in ToSet(m)
    THEN "ValueError"
    ELSE IF Cardinality({f \in {"x", "r", "w", "a"} : f \in ToSet(m)}) > 1
    THEN "ValueError"
    ELSE IF ~ (creating(m) \/ reading(m) \/ writing(m) \/ appending(m))
    THEN "ValueError"
    ELSE IF binary(m) /\ text_arg # "None"
    THEN "ValueError"
    ELSE "None"

\* A resource test that lets a directory through.
resource_error_no_directory(ft, m) ==
    IF ft = "regular"
    THEN IF creating(m) THEN "FileExistsError" ELSE "None"
    ELSE IF reading(m) THEN "FileNotFoundError" ELSE "None"

\* The tests on the resource: OSError 21 for a directory, 17 for an existing
\* target when creating, 2 for a missing one when reading; or "None".
resource_error(ft, m) ==
    IF ft = "directory"
    THEN "IsADirectoryError"
    ELSE IF ft # "missing"
    THEN IF creating(m) THEN "FileExistsError" ELSE "None"
    ELSE IF reading(m) THEN "FileNotFoundError" ELSE "None"

\* `if buffering == 0 and not binary`
unbuffered_text(m, buffering) == buffering = 0 /\ ~ binary(m)

\* An opener choice that takes the one-way opener whatever the '+'.
opener_ignores_update(m) ==
    IF creating(m) THEN "create"
    ELSE IF reading(m) THEN "read"
    ELSE IF writing(m) THEN "replace"
    ELSE "append_to"

\* The Gio.File method open calls for a mode that passed validation.
opener(m) ==
    IF updating(m)
    THEN IF creating(m) THEN "create_readwrite"
         ELSE IF writing(m) THEN "replace_readwrite"
         ELSE "open_readwrite"
    ELSE IF creating(m) THEN "create"
    ELSE IF reading(m) THEN "read"
    ELSE IF writing(m) THEN "replace"
    ELSE "append_to"

\* The class of the stream a Gio.File opener returns.
opened_kind(fn) ==
    IF fn = "read" THEN "InputStream"
    ELSE IF fn \in {"create", "replace", "append_to"} THEN "OutputStream"
    ELSE "IOStream"

\* The stream of a file an opener returns: it can seek, its output can
\* truncate, its input answers query_info; it may or may not have get_fd.
opened_stream(fn, fd) ==
    [kind |-> opened_kind(fn), can_seek |-> TRUE,
     can_truncate |-> opened_kind(fn) # "InputStream", has_fd |-> fd,
     input_class |-> IF opened_kind(fn) = "OutputStream" THEN "plain"
                     ELSE "query_info",
     full_reads |-> FALSE]

\* The wrappers open puts around the raw object: the outermost one.
wrapper(m, buffering) ==
    IF ~ binary(m) THEN "TextIOWrapper"
    ELSE IF buffering = 0 THEN "raw"
    ELSE IF updating(m) THEN "BufferedRandom"
    ELSE IF reading(m) THEN "BufferedReader"
    ELSE "BufferedWriter"

\* What opening does to the file: create and replace leave it empty, and
\* every opener but read and open_readwrite makes a missing file.
opened_content(fn) ==
    IF fn \in {"create", "create_readwrite", "replace", "replace_readwrite"}
    THEN <<>>
    ELSE content

FileCall(fn) == Call(fn, "file", 0, 0)

\* The state a failed open leaves: nothing but the record of the call.
open_fails(o, e, log) ==
    /\ op' = o
    /\ result' = Raise(e)
    /\ calls' = log
    /\ pc' = "failed"
    /\ UNCHANGED <<stream, provider, fields, was_closed, file_type, append,
                   file_like>>

open ==
    \E m \in Modes, buffering \in Bufferings, text_arg \in TextArgs,
       native \in BOOLEAN, has_path \in BOOLEAN, fd \in BOOLEAN :
        LET o == OpenOp(m, buffering, text_arg, native)
            path_log == <<FileCall("peek_path")>>
                        \o (IF has_path THEN <<>>
                            ELSE <<FileCall("get_basename")>>)
            type_log == path_log \o <<FileCall("query_file_type")>>
            query_log == type_log \o <<FileCall("query_exists")>>
            fn == opener(m)
            open_log == query_log \o <<FileCall(fn)>>
            ref == IF opened_kind(fn) = "OutputStream" THEN "out" ELSE "in"
            probe_log == IF buffering = 0 THEN <<>>
                         ELSE <<Call("is_closed", ref, 0, 0)>>
                              \o (IF fd THEN <<Call("get_fd", ref, 0, 0)>>
                                  ELSE <<>>)
        IN /\ pc = "new"
           /\ mode' = m
           /\ IF argument_error(m, text_arg) # "None"
              THEN open_fails(o, argument_error(m, text_arg), <<>>)
              ELSE IF file_type = "directory"
              THEN open_fails(o, resource_error(file_type, m), type_log)
              ELSE IF resource_error(file_type, m) # "None"
              THEN open_fails(o, resource_error(file_type, m), query_log)
              ELSE IF unbuffered_text(m, buffering)
              THEN open_fails(o, "ValueError", query_log)
              ELSE IF native /\ has_path
              THEN \* io.FileIO(path, mode): Python's own file object
                   /\ op' = o
                   /\ result' = RetNone
                   /\ calls' = query_log
                   /\ pc' = "native"
                   /\ content' = IF creating(m) \/ writing(m) THEN <<>>
                                 ELSE content
                   /\ file_type' = "regular"
                   /\ file_like' = IF wrapper(m, buffering) = "raw"
                                   THEN "FileIO"
                                   ELSE wrapper(m, buffering)
                   /\ UNCHANGED <<stream, pos, in_closed, out_closed, fields,
                                  was_closed, append>>
              ELSE IF fn = "open_readwrite" /\ file_type = "missing"
              THEN open_fails(o, "GLibError", open_log)
              ELSE /\ op' = o
                   /\ result' = RetNone
                   /\ calls' = open_log \o probe_log
                   /\ pc' = "ready"
                   /\ stream' = opened_stream(fn, fd)
                   /\ content' = opened_content(fn)
                   /\ file_type' = "regular"
                   /\ append' = (fn = "append_to")
                   /\ file_like' = IF wrapper(m, buffering) = "raw"
                                   THEN "StreamWrapper"
                                   ELSE wrapper(m, buffering)
                   /\ input_stream' = IF opened_kind(fn) = "OutputStream"
                                      THEN "None" ELSE "in"
                   /\ output_stream' = IF opened_kind(fn) = "InputStream"
                                       THEN "None" ELSE "out"
                   /\ ref_stream' = ref
                   /\ io_stream' = IF opened_kind(fn) = "IOStream"
                                   THEN "io" ELSE "None"
                   /\ UNCHANGED <<pos, in_closed, out_closed, was_closed>>

Next ==
    \/ init
    \/ close
    \/ fileno
    \/ flush
    \/ call_readable
    \/ call_writable
    \/ seekable
    \/ tell
    \/ seek
    \/ read
    \/ readinto
    \/ truncate
    \/ write

Spec == Init /\ [][Next]_vars

\* The wrapper reached through open: the caller holds a Gio.File, not a
\* stream, and every later call is made on the StreamWrapper open built.
NoStream == [kind |-> "None", can_seek |-> FALSE, can_truncate |-> FALSE,
             has_fd |-> FALSE, input_class |-> "plain", full_reads |-> FALSE]

OpenInit ==
    /\ stream = NoStream
    /\ file_type \in FileTypes
    /\ content \in (IF file_type = "regular" THEN OpenContents ELSE {<<>>})
    /\ pos = 0
    /\ in_closed = FALSE
    /\ out_closed = FALSE
    /\ pc = "new"
    /\ input_stream = "None"
    /\ output_stream = "None"
    /\ ref_stream = "None"
    /\ io_stream = "None"
    /\ op = NoArgs
    /\ result = RetNone
    /\ was_closed = FALSE
    /\ calls = <<>>
    /\ append = FALSE
    /\ mode = <<>>
    /\ file_like = "None"

OpenNext ==
    \/ open
    \/ close
    \/ fileno
    \/ flush
    \/ call_readable
    \/ call_writable
    \/ seekable
    \/ tell
    \/ seek
    \/ read
    \/ readinto
    \/ truncate
    \/ write

OpenSpec == OpenInit /\ [][OpenNext]_vars

\* The wrapper on an input stream of unknown size whose provider returns
\* every chunk in full, over resources of up to MaxSize bytes.
MaxSize == 16

FullStream == [kind |-> "InputStream", can_seek |-> TRUE,
               can_truncate |-> FALSE, has_fd |-> FALSE,
               input_class |-> "plain", full_reads |-> TRUE]

Bytes(n) == [i \in 1 .. n |-> i % 4]

ReadAllInit ==
    /\ stream = FullStream
    /\ content \in {Bytes(n) : n \in 0 .. MaxSize}
    /\ pos = 0
    /\ in_closed = FALSE
    /\ out_closed = FALSE
    /\ pc = "new"
    /\ input_stream = "None"
    /\ output_stream = "None"
    /\ ref_stream = "None"
    /\ io_stream = "None"
    /\ op = NoArgs
    /\ result = RetNone
    /\ was_closed = FALSE
    /\ calls = <<>>
    /\ file_type = "regular"
    /\ append = FALSE
    /\ mode = <<>>
    /\ file_like = "None"

ReadAllNext ==
    \/ init
    \/ read
    \/ seek
    \/ tell
    \/ close

ReadAllSpec == ReadAllInit /\ [][ReadAllNext]_vars

\* ================================================================ claims
ready == pc = "ready"
IsOpen == ready /\ ~ closed
NoIO(log) == Count(log, IOCalls) = 0
SeekCalls(log) == SelectSeq(log, LAMBDA c : c.fn = "seek")

\* The position a file object's seek(offset, whence) asks for, from position
\* p on a resource of size s.
PyTarget(p, s, offset, whence) ==
    CASE whence = SEEK_SET -> offset
      [] whence = SEEK_CUR -> p + offset
      [] OTHER -> s + offset

\* The methods that begin with the closed test.
ClosedChecked == {"read", "readinto", "write", "seek", "tell", "truncate",
                  "flush", "fileno", "seekable"}

\* C1: once the wrapper is closed, every call of read, readinto, write, seek,
\* tell, truncate, flush, fileno and seekable raises ValueError, whatever the
\* shape supports, makes no provider I/O call and leaves the resource as it
\* was.
C1_ClosedCallsRaise ==
    [][(ready /\ closed /\ op'.name \in ClosedChecked)
        => /\ result' = Raise("ValueError")
           /\ NoIO(calls')
           /\ UNCHANGED provider]_vars

\* C1 witness: a read on a closed write-only wrapper has raised ValueError.
C1_Witness ==
    /\ ready /\ was_closed /\ closed /\ ~ readable /\ writable
    /\ op.name = "read"
    /\ result.exc = "ValueError"

\* C2 as stated: a close() on a closed wrapper does not call the provider's
\* close again and leaves closed, position and contents as they were.
C2_SecondCloseCallsNothing ==
    [][(ready /\ closed /\ op'.name = "close")
        => /\ Count(calls', {"close"}) = 0
           /\ closed'
           /\ UNCHANGED provider]_vars

\* C2 amended: a close() on a closed wrapper returns normally, forwards to
\* the provider's close once more (once for the combined handle, once for
\* the single view), makes no other I/O call, and leaves closed, position
\* and contents exactly as the first close left them.
C2_SecondCloseNoEffect ==
    [][(ready /\ closed /\ op'.name = "close")
        => /\ result' = RetNone
           /\ Count(calls', {"close"}) = 1
           /\ Count(calls', IOCalls \ {"close"}) = 0
           /\ closed'
           /\ UNCHANGED provider]_vars

\* C2 witness: a close() has run on a wrapper that is closed, for a combined
\* handle.
C2_Witness ==
    /\ ready /\ was_closed /\ closed /\ io_stream # "None"
    /\ op.name = "close"
    /\ result = RetNone
    /\ in_closed /\ out_closed

\* C3 as stated: on an open seekable combined wrapper, seek(o, whence) with
\* a target that is a position ends at that target and returns it: o for
\* whence 0, p + o for whence 1, s + o for whence 2.
C3_CombinedSeekMovesOnce ==
    [][(IsOpen /\ stream.kind = "IOStream" /\ stream.can_seek
        /\ op'.name = "seek"
        /\ PyTarget(pos, Len(content), op'.a, op'.b) >= 0)
        => /\ pos' = PyTarget(pos, Len(content), op'.a, op'.b)
           /\ result' = RetInt(pos')]_vars

\* C4: on an open seekable wrapper with a single view, seek(o, whence) with
\* a target that is a position makes one provider seek, with whence 0 passed
\* as G_SEEK_SET, 1 as G_SEEK_CUR and 2 as G_SEEK_END, ends at the target
\* (o, p + o or s + o), returns the position read back from the reference
\* handle, and a tell() right after returns the same value.
C4_SeekReturnsTarget ==
    /\ [][(IsOpen /\ stream.kind \in {"InputStream", "OutputStream"}
           /\ stream.can_seek /\ op'.name = "seek"
           /\ PyTarget(pos, Len(content), op'.a, op'.b) >= 0)
           => /\ pos' = PyTarget(pos, Len(content), op'.a, op'.b)
              /\ result' = RetInt(pos')
              /\ SeekCalls(calls')
                   = <<Call("seek", ref_stream, op'.a,
                            CASE op'.b = SEEK_SET -> G_SEEK_SET
                              [] op'.b = SEEK_CUR -> G_SEEK_CUR
                              [] OTHER -> G_SEEK_END)>>
              /\ calls'[Len(calls')] = Call("tell", ref_stream, 0, 0)]_vars
    /\ [][(stream.kind \in {"InputStream", "OutputStream"}
           /\ op.name = "seek" /\ result.exc = "None"
           /\ op'.name = "tell")
           => result' = RetInt(result.n)]_vars

\* C4 witness: seek(-1, 2) on a three-byte resource has returned 2 on an
\* output-only wrapper.
C4_Witness ==
    /\ IsOpen /\ stream.kind = "OutputStream"
    /\ op = Op("seek", -1, SEEK_END, <<>>)
    /\ Len(content) = 3
    /\ result = RetInt(2)

\* The bytes of the resource from position p to its end.
Rest(p) == SubSeq(content, p + 1, Len(content))

\* C5 as stated: on an open readable wrapper at position p, read(-1) returns
\* the bytes from p to the end, in order, and leaves the position at the end
\* of the stream, and a read(-1) right after it returns no bytes.
C5_ReadAllReturnsRest ==
    [][(IsOpen /\ readable /\ op'.name = "read" /\ op'.a = -1)
        => /\ result' = RetBytes(Rest(pos))
           /\ pos' = Max(pos, Len(content))
           /\ (op.name = "read" /\ op.a = -1 => result' = RetBytes(<<>>))]_vars

\* C6: a constructed wrapper is readable only, writable only or both, as the
\* class of its handle decides; readable() and writable() return that, never
\* raise and call nothing on the provider, and no call changes what they
\* return, close() included.
C6_CapabilityShapeFixed ==
    /\ [](ready =>
            /\ readable \/ writable
            /\ readable <=> stream.kind \in {"InputStream", "IOStream"}
            /\ writable <=> stream.kind \in {"OutputStream", "IOStream"}
            /\ op.name = "readable"
                 => result = RetBool(readable) /\ calls = <<>>
            /\ op.name = "writable"
                 => result = RetBool(writable) /\ calls = <<>>)
    /\ [][ready => (readable' <=> readable) /\ (writable' <=> writable)]_vars

\* C6 witness: readable() has returned true on a closed input-only wrapper.
C6_Witness ==
    /\ ready /\ was_closed /\ closed /\ stream.kind = "InputStream"
    /\ op.name = "readable"
    /\ result = RetBool(TRUE)

\* C7: closed is false until the first close(), only close() makes it true,
\* and once true it stays true.
C7_ClosedMonotonic ==
    /\ ~ closed
    /\ [][closed => closed']_vars
    /\ [][(~ closed /\ closed') => op'.name = "close"]_vars

\* C7 witness: a wrapper is closed and a write was attempted after that.
C7_Witness ==
    /\ ready /\ was_closed /\ closed
    /\ op.name = "write"

\* C8: __init__ on a handle that is no InputStream, OutputStream or IOStream
\* raises TypeError, sets no field, calls nothing on the handle, and no
\* wrapper call follows; every other handle class is accepted.
C8_BadHandleRejected ==
    /\ [](op.name = "__init__" =>
            IF stream.kind = "Other"
            THEN /\ result = Raise("TypeError")
                 /\ pc = "failed"
                 /\ input_stream = "None" /\ output_stream = "None"
                 /\ ref_stream = "None" /\ io_stream = "None"
                 /\ calls = <<>>
            ELSE ready /\ result = RetNone)
    /\ [](stream.kind = "Other" => ~ ready)
    /\ [][pc # "failed"]_vars

\* C8 witness: construction has failed with TypeError.
C8_Witness ==
    /\ pc = "failed"
    /\ stream.kind = "Other"
    /\ result = Raise("TypeError")

\* C9: on an open wrapper, read and readinto without an input view, write
\* without an output view, seek on a handle that cannot seek, and truncate
\* without an output view or on one that cannot truncate raise
\* UnsupportedOperation, make no provider I/O call and leave position and
\* contents as they were.
C9_UnsupportedBeforeIO ==
    [][(IsOpen /\
        \/ op'.name \in {"read", "readinto"} /\ ~ readable
        \/ op'.name = "write" /\ ~ writable
        \/ op'.name = "seek" /\ ~ stream.can_seek
        \/ op'.name = "truncate" /\ (~ writable \/ ~ stream.can_truncate))
        => /\ result' = Raise("UnsupportedOperation")
           /\ NoIO(calls')
           /\ UNCHANGED provider]_vars

\* C9 witness: a read on an open write-only wrapper has raised
\* UnsupportedOperation.
C9_Witness ==
    /\ IsOpen /\ ~ was_closed /\ ~ readable
    /\ op.name = "read"
    /\ result = Raise("UnsupportedOperation")

\* C10 as stated: fileno() on an open wrapper returns the descriptor when
\* the reference handle has the accessor, and otherwise raises
\* UnsupportedOperation.
C10_FilenoUnsupported ==
    [][(IsOpen /\ op'.name = "fileno")
        => IF stream.has_fd
           THEN result' = RetInt(get_fd(ref_stream))
           ELSE /\ result' = Raise("UnsupportedOperation")
                /\ Count(calls', {"get_fd"}) = 0]_vars

ReadCalls(log) == SelectSeq(log, LAMBDA c : c.fn = "read_bytes")
WriteCalls(log) == SelectSeq(log, LAMBDA c : c.fn = "write_bytes")

\* C11: on an open writable wrapper write(b'') and write(None) return 0
\* without a provider write, and on an open readable wrapper read(0) returns
\* no bytes without a provider read; position and contents stay as they were.
C11_ZeroLengthFastPaths ==
    /\ [][(IsOpen /\ writable /\ op'.name = "write" /\ op'.data = <<>>)
           => /\ result' = RetInt(0)
              /\ WriteCalls(calls') = <<>>
              /\ NoIO(calls')
              /\ UNCHANGED provider]_vars
    /\ [][(IsOpen /\ readable /\ op'.name = "read" /\ op'.a = 0)
           => /\ result' = RetBytes(<<>>)
              /\ ReadCalls(calls') = <<>>
              /\ NoIO(calls')
              /\ UNCHANGED provider]_vars

\* C11 witness: write(None) has returned 0 on an open writable wrapper.
C11_Witness ==
    /\ IsOpen /\ ~ was_closed /\ writable
    /\ op = Op("write", 1, 0, <<>>)
    /\ result = RetInt(0)

\* C12: read(size) with size > 0 on an open readable wrapper makes exactly
\* one provider read, for size bytes, and returns the chunk it got: k bytes
\* from the position, with k <= size and k = 0 only at the end of the stream;
\* it does not ask again when the chunk is short.
C12_ReadOnce ==
    [][(IsOpen /\ readable /\ op'.name = "read" /\ op'.a > 0)
        => \E k \in 0 .. op'.a :
             /\ ReadCalls(calls')
                  = <<Call("read_bytes", input_stream, op'.a, k)>>
             /\ result' = RetBytes(get_data(pos, k))
             /\ pos' = pos + k
             /\ (k = 0) <=> (pos >= Len(content))]_vars

\* C12 witness: read(2) has returned one byte although more were left.
C12_Witness ==
    /\ IsOpen /\ ~ was_closed
    /\ op.name = "read" /\ op.a = 2
    /\ result.kind = "bytes" /\ result.n = 1
    /\ pos < Len(content)

\* C13: write(data) with data that is not empty on an open writable wrapper
\* makes exactly one provider write, of all of data, returns the count k the
\* provider reports (1 <= k <= len(data)), and k bytes of data are written.
C13_WriteOnce ==
    [][(IsOpen /\ writable /\ op'.name = "write" /\ op'.data # <<>>)
        => \E k \in 1 .. Len(op'.data) :
             /\ WriteCalls(calls')
                  = <<Call("write_bytes", output_stream, Len(op'.data), k)>>
             /\ result' = RetInt(k)
             /\ content' = written(pos, op'.data, k)
             /\ pos' = pos + k]_vars

\* C13 witness: a write of two bytes has returned 1.
C13_Witness ==
    /\ IsOpen /\ ~ was_closed
    /\ op.name = "write" /\ Len(op.data) = 2
    /\ result = RetInt(1)

\* C14: readinto(b) on an open readable wrapper makes one provider read for
\* len(b) bytes, returns the number k of bytes it got, k <= len(b), and
\* leaves in b the k bytes read followed by what b held after them.
C14_ReadintoFillsPrefix ==
    [][(IsOpen /\ readable /\ op'.name = "readinto")
        => LET b == op'.data
               k == result'.n
           IN /\ result'.exc = "None" /\ result'.kind = "int"
              /\ k \in 0 .. Len(b)
              /\ ReadCalls(calls')
                   = <<Call("read_bytes", input_stream, Len(b), k)>>
              /\ Len(result'.data) = Len(b)
              /\ \A i \in 1 .. Len(b) :
                    result'.data[i] = IF i <= k THEN content[pos + i] ELSE b[i]
              /\ pos' = pos + k]_vars

\* C14 witness: readinto on a two-byte buffer has returned 1 and the second
\* byte of the buffer is the caller's.
C14_Witness ==
    /\ IsOpen /\ ~ was_closed
    /\ op.name = "readinto" /\ op.data = <<9, 9>>
    /\ result.n = 1
    /\ result.data[1] # 9 /\ result.data[2] = 9

\* C15: truncate(size) on an open wrapper whose output view can truncate
\* resizes the resource to size and returns size, the bytes kept being the
\* ones that were there; with size omitted the size is the position the
\* output view had before the call; truncate makes no seek and the position
\* stays.
C15_TruncateToSize ==
    [][(IsOpen /\ writable /\ stream.can_truncate /\ op'.name = "truncate")
        => LET size == IF op'.b = 1 THEN op'.a ELSE pos
           IN /\ result' = RetInt(size)
              /\ Len(content') = size
              /\ \A i \in 1 .. size :
                    content'[i] = IF i <= Len(content) THEN content[i] ELSE 0
              /\ SeekCalls(calls') = <<>>
              /\ Count(calls', {"truncate"}) = 1
              /\ pos' = pos]_vars

\* C15 witness: truncate() at position 2 has cut a longer resource to two
\* bytes and returned 2.
C15_Witness ==
    /\ IsOpen /\ ~ was_closed
    /\ op = Op("truncate", 0, 0, <<>>)
    /\ pos = 2
    /\ result = RetInt(2)
    /\ content = <<1, 2>>

\* The arguments of an open call pass the validation of open.
ValidArguments(o) ==
    argument_error(o.data, o.c) = "None" /\ ~ unbuffered_text(o.data, o.a)

\* C16 as stated: on a wrapper open built for a mode with 'a', with or
\* without '+', a write leaves the resource holding what it held followed by
\* the bytes written; nothing it held is overwritten or cut.
C16_AppendKeepsContent ==
    [][(IsOpen /\ appending(mode) /\ op'.name = "write"
        /\ result'.kind = "int")
        => content' = content \o SubSeq(op'.data, 1, result'.n)]_vars

\* C17 as stated: open rejects a malformed mode, text with binary, encoding,
\* errors or newline in binary mode, and buffering 0 in text mode with
\* ValueError before it calls anything on the file.
C17_ValidatesBeforeResource ==
    (op.name = "open" /\ ~ ValidArguments(op))
        => result = Raise("ValueError") /\ calls = <<>>

\* The provider calls that open a stream on a file.
Openers == {"create", "create_readwrite", "replace", "replace_readwrite",
            "read", "open_readwrite", "append_to"}

\* C18: open with arguments that pass validation fails with
\* IsADirectoryError on a directory for every mode, with FileExistsError on
\* an existing file for a mode with 'x', with FileNotFoundError on a missing
\* file for a mode with 'r'; it then calls no opener, builds no wrapper and
\* leaves the existence and the contents of the resource as they were.
C18_ResourceStateErrors ==
    [][(op'.name = "open" /\ argument_error(op'.data, op'.c) = "None")
        => LET m == op'.data
           IN /\ file_type = "directory"
                    => result' = Raise("IsADirectoryError")
              /\ file_type = "regular" /\ creating(m)
                    => result' = Raise("FileExistsError")
              /\ file_type = "missing" /\ reading(m)
                    => result' = Raise("FileNotFoundError")
              /\ (\/ file_type = "directory"
                  \/ file_type = "regular" /\ creating(m)
                  \/ file_type = "missing" /\ reading(m))
                    => /\ pc' = "failed"
                       /\ Count(calls', Openers) = 0
                       /\ file_type' = file_type
                       /\ content' = content
                       /\ ~ readable' /\ ~ writable'
                       /\ file_like' = "None"]_vars

\* C18 witness: open(file, 'xb') on an existing file holding a byte has
\* failed with FileExistsError after the existence query.
C18_Witness ==
    /\ op.name = "open" /\ op.data = <<"x", "b">>
    /\ result = Raise("FileExistsError")
    /\ file_type = "regular" /\ content = <<1>>
    /\ Count(calls, {"query_exists"}) = 1

\* The wrapper reads and writes as the mode of the last call, an open, says.
ShapeByMode ==
    LET m == op.data
    IN /\ reading(m) /\ ~ updating(m) => readable /\ ~ writable
       /\ (writing(m) \/ creating(m) \/ appending(m)) /\ ~ updating(m)
             => writable /\ ~ readable
       /\ updating(m) => readable /\ writable

\* C19 as stated: open on an existing regular file, not native, succeeds
\* for every valid mode, and what it returns is readable only for 'r',
\* writable only for 'w', 'x' and 'a', and both for every mode with '+'.
C19_EveryModeOpens ==
    [][(op'.name = "open" /\ op'.b = 0 /\ ValidArguments(op')
        /\ file_type = "regular")
        => /\ pc' = "ready"
           /\ result' = RetNone
           /\ ShapeByMode']_vars

\* C19, amended: open on an existing regular file, not native, succeeds for
\* every valid mode without 'x', 'a+' included, and whenever open builds a
\* wrapper it is readable only for 'r', writable only for 'w', 'x' and 'a',
\* and both for every mode with '+'.
C19_ShapeByMode ==
    /\ [][(op'.name = "open" /\ op'.b = 0 /\ ValidArguments(op')
           /\ file_type = "regular" /\ ~ creating(op'.data))
           => /\ pc' = "ready"
              /\ result' = RetNone]_vars
    /\ [][(op'.name = "open" /\ pc' = "ready")
           => ShapeByMode']_vars

\* C19 witness: open(file, 'a+') on an existing file has returned a text
\* wrapper over a wrapper that reads and writes.
C19_Witness ==
    /\ op.name = "open" /\ op.data = <<"a", "+">> /\ op.b = 0
    /\ pc = "ready" /\ result = RetNone
    /\ file_like = "TextIOWrapper"
    /\ readable /\ writable
    /\ content = <<1>>

\* C20 as stated: on an open wrapper whose input view is a buffered input
\* stream, read(-1) asks the provider for the view's buffer size first and
\* returns the bytes from the position to the end of the stream.
C20_BufferedReadAll ==
    [][(IsOpen /\ readable /\ stream.input_class = "buffered"
        /\ op'.name = "read" /\ op'.a = -1)
        => /\ result' = RetBytes(Rest(pos))
           /\ Len(ReadCalls(calls')) > 0
           /\ ReadCalls(calls')[1].a = BufferSize]_vars

\* C21 as stated: on an open wrapper whose input view is not a buffered
\* input stream, read(-1) first asks for size - position + 1 bytes when the
\* view tells a size that is not below the position, and for the default
\* buffer size in every other case, a size below the position and no size
\* accessor included; it returns the bytes from the position to the end.
C21_FallbackToDefault ==
    [][(IsOpen /\ readable /\ stream.input_class # "buffered"
        /\ op'.name = "read" /\ op'.a = -1)
        => /\ result' = RetBytes(Rest(pos))
           /\ Len(ReadCalls(calls')) > 0
           /\ ReadCalls(calls')[1].a
                = (IF stream.input_class \in {"get_size", "query_info"}
                      /\ Len(content) >= pos
                   THEN Len(content) - pos + 1
                   ELSE DEFAULT_BUFFER_SIZE)]_vars

\* The bytes the first i reads of a log returned.
RECURSIVE Got(_, _)
Got(log, i) == IF i = 0 THEN 0 ELSE Got(log, i - 1) + log[i].b

\* C22: on a wrapper without size accessor whose provider returns every
\* chunk in full, read(-1) of S remaining bytes asks for the default size
\* first; each time a read fills the plan the next one asks for the larger
\* of the bytes read so far and the default size; and the number n of
\* provider reads is at most log2(S / default) + 3, that is n <= 2 or
\* default * 2^(n - 3) <= S.
C22_LogarithmicReads ==
    [][(IsOpen /\ readable /\ stream.full_reads
        /\ stream.input_class = "plain"
        /\ op'.name = "read" /\ op'.a = -1)
        => LET log == ReadCalls(calls')
               n == Len(log)
               S == Len(Rest(pos))
           IN /\ result' = RetBytes(Rest(pos))
              /\ n >= 1
              /\ log[1].a = DEFAULT_BUFFER_SIZE
              /\ \A i \in 1 .. n - 1 :
                    log[i].b = log[i].a
                      => log[i + 1].a
                           = Max(Got(log, i), DEFAULT_BUFFER_SIZE)
              /\ n <= 2 \/ DEFAULT_BUFFER_SIZE * 2 ^ (n - 3) <= S]_vars

\* C22 witness: a read(-1) of sixteen bytes, eight times the default size,
\* took five provider reads.
C22_Witness ==
    /\ IsOpen /\ stream.full_reads
    /\ op.name = "read" /\ op.a = -1
    /\ result.kind = "bytes" /\ result.n = 16
    /\ Len(ReadCalls(calls)) = 5

\* C23: when read(-1) has an initial planned size, every provider read of
\* its loop asks for at least one byte, whatever the pattern of short reads;
\* only the last read returns an empty chunk, and it does so at the end of
\* the stream; the loop ends after at most one read per remaining byte and
\* one more, and what it returns is every byte up to the end.
C23_RequestsAtLeastOne ==
    [][(IsOpen /\ readable /\ op'.name = "read" /\ op'.a = -1
        /\ initial_bufsize.bufsize # Unbound)
        => LET log == ReadCalls(calls')
           IN /\ Len(log) >= 1
              /\ \A i \in 1 .. Len(log) :
                    /\ log[i].a >= 1
                    /\ log[i].b = 0 <=> i = Len(log)
              /\ pos' >= Len(content)
              /\ Len(log) <= Len(Rest(pos)) + 1
              /\ result' = RetBytes(Rest(pos))]_vars

\* C23 witness: a read(-1) of three bytes took three short reads and the
\* empty one at the end.
C23_Witness ==
    /\ IsOpen /\ ~ was_closed
    /\ op.name = "read" /\ op.a = -1
    /\ result = RetBytes(<<1, 2, 3>>)
    /\ Len(ReadCalls(calls)) = 4

====
